---- MODULE Spec2Model ----
(***************************************************************************)
(* A model of the hash-linked ledger of src/src/lib.rs: Block, Blockchain  *)
(* (new, add_block, is_valid) and FixedPeerConsensus (propose_block).      *)
(*                                                                         *)
(* Digests.  calculate_hash is SHA-256 over the bincode encoding of the    *)
(* block's content.  The encoding is modelled word by word (one element    *)
(* per fixed-width field, a length prefix before the transaction vector);  *)
(* SHA-256 is modelled as a collision-free function: the digest of a byte  *)
(* string is represented by that byte string under the tag sha256, and     *)
(* the all-zero array [0u8; 32] is a value no byte string hashes to.       *)
(*                                                                         *)
(* Clock.  current_timestamp() reads the system clock, which may advance,  *)
(* stall or jump backwards: every reading is an arbitrary value of         *)
(* 0..MaxClock.                                                            *)
(*                                                                         *)
(* Panics.  Nothing in the crate catches a panic: it unwinds out of the    *)
(* call and ends the thread that owns the ledger.  The ledger a panicking  *)
(* call leaves behind is observable (as under #[should_panic]); no         *)
(* further call is made on it.                                             *)
(*                                                                         *)
(* Widths.  index and timestamp are u64; every value here stays below      *)
(* MaxBlocks + 1 and MaxClock + 1, so previous_block.index + 1 never       *)
(* wraps and the arithmetic is that of the integers.                       *)
(***************************************************************************)
EXTENDS Integers, Sequences, FiniteSets, TLC

\* ---------------------------------------------------------------- bounds
MaxBlocks == 3
MaxClock == 2
MaxPeers == 5
MaxTampers == 1

\* ------------------------------------------------------------- constants
MAX_TRANSACTIONS_PER_BLOCK == 10

\* ---------------------------------------------------------- transactions
\* Transaction { from, to, amount }; the 32-byte keys are one word each.
Transaction(from, to, amount) == [from |-> from, to |-> to, amount |-> amount]

TxA == Transaction(1, 2, 100)
TxB == Transaction(3, 4, 50)

\* A batch of n transactions, alternating TxA and TxB.
Batch(n) == [i \in 1..n |-> IF i % 2 = 1 THEN TxA ELSE TxB]

\* The batches offered to add_block / propose_block: empty, one
\* transaction, exactly the limit, one over the limit.
BatchSizes ==
  {0, 1, MAX_TRANSACTIONS_PER_BLOCK, MAX_TRANSACTIONS_PER_BLOCK + 1}

Batches == {Batch(n) : n \in BatchSizes}

\* ---------------------------------------------------------------- hasher
\* [0u8; 32]
ZeroHash == [zero |-> 32]

\* bincode encoding of a slice of transactions: from, to, amount of each.
RECURSIVE SerializeTransactions(_)
SerializeTransactions(txs) ==
  IF txs = <<>> THEN <<>>
  ELSE <<Head(txs).from, Head(txs).to, Head(txs).amount>>
         \o SerializeTransactions(Tail(txs))

\* bincode::serialize(&BlockContent{index, timestamp, transactions,
\* previous_hash}): fields in declaration order, the slice length-prefixed.
SerializeContent(index, timestamp, transactions, previous_hash) ==
  <<index, timestamp, Len(transactions)>>
    \o SerializeTransactions(transactions)
    \o <<previous_hash>>

\* Sha256::new().update(bytes).finalize()
Sha256(bytes) == [sha256 |-> bytes]

\* calculate_hash over a content that leaves the timestamp out.
calculate_hash_no_timestamp(block) ==
  Sha256(<<block.index, Len(block.transactions)>>
           \o SerializeTransactions(block.transactions)
           \o <<block.previous_hash>>)

\* Block::calculate_hash: everything but the hash field.
calculate_hash(block) ==
  Sha256(SerializeContent(block.index, block.timestamp,
                          block.transactions, block.previous_hash))

\* ---------------------------------------------------------- block builder
Block(index, timestamp, transactions, previous_hash, hash) ==
  [index |-> index, timestamp |-> timestamp, transactions |-> transactions,
   previous_hash |-> previous_hash, hash |-> hash]

\* create_genesis_block with the digest left at its placeholder.
create_genesis_block_no_hash(now) ==
  Block(0, now, <<>>, ZeroHash, ZeroHash)

\* create_genesis_block, with the clock reading it samples.
create_genesis_block(now) ==
  LET block == Block(0, now, <<>>, ZeroHash, ZeroHash)
  IN  [block EXCEPT !.hash = calculate_hash(block)]

\* create_block with the digest left at its placeholder.
create_block_no_hash(transactions, previous_block, now) ==
  IF now <= previous_block.timestamp
  THEN [panicked |-> TRUE]
  ELSE [panicked |-> FALSE,
        block |-> Block(previous_block.index + 1, now, transactions,
                        previous_block.hash, ZeroHash)]

\* create_block with the timestamp check `<` in place of `<=`.
create_block_non_strict(transactions, previous_block, now) ==
  IF now < previous_block.timestamp
  THEN [panicked |-> TRUE]
  ELSE LET block == Block(previous_block.index + 1, now, transactions,
                          previous_block.hash, ZeroHash)
       IN  [panicked |-> FALSE,
            block |-> [block EXCEPT !.hash = calculate_hash(block)]]

\* create_block without the timestamp check.
create_block_no_check(transactions, previous_block, now) ==
  LET block == Block(previous_block.index + 1, now, transactions,
                     previous_block.hash, ZeroHash)
  IN  [panicked |-> FALSE,
       block |-> [block EXCEPT !.hash = calculate_hash(block)]]

\* create_block numbering the new block from the length-independent
\* constant 1 in place of previous_block.index + 1.
create_block_index_one(transactions, previous_block, now) ==
  IF now <= previous_block.timestamp
  THEN [panicked |-> TRUE]
  ELSE LET block == Block(1, now, transactions, previous_block.hash,
                          ZeroHash)
       IN  [panicked |-> FALSE,
            block |-> [block EXCEPT !.hash = calculate_hash(block)]]

\* create_block, with the clock reading it samples: panics when the
\* reading is not strictly greater than the previous block's timestamp.
create_block(transactions, previous_block, now) ==
  LET index == previous_block.index + 1
      timestamp == now
  IN  IF timestamp <= previous_block.timestamp
      THEN [panicked |-> TRUE]
      ELSE LET previous_hash == previous_block.hash
               block == Block(index, timestamp, transactions,
                              previous_hash, ZeroHash)
           IN  [panicked |-> FALSE,
                block |-> [block EXCEPT !.hash = calculate_hash(block)]]

\* ---------------------------------------------------------------- ledger
\* insert(0, new_block) in place of push(new_block).
push_front(chain, new_block) == <<new_block>> \o chain

\* self.blocks.push(new_block)
push(chain, new_block) == Append(chain, new_block)

\* self.blocks.last()
last_block(chain) == chain[Len(chain)]

NoReading == -1

\* add_block with the capacity check `>=` in place of `>`.
add_block_off_by_one(chain, transactions, now) ==
  IF Len(transactions) >= MAX_TRANSACTIONS_PER_BLOCK
  THEN [panicked |-> TRUE, blocks |-> chain, sampled |-> NoReading]
  ELSE IF chain = <<>>
  THEN [panicked |-> TRUE, blocks |-> chain, sampled |-> NoReading]
  ELSE LET new_block == create_block(transactions, last_block(chain), now)
       IN  IF new_block.panicked
           THEN [panicked |-> TRUE, blocks |-> chain, sampled |-> now]
           ELSE [panicked |-> FALSE,
                 blocks |-> push(chain, new_block.block),
                 sampled |-> now]

\* add_block truncating an over-long batch to the limit.
add_block_truncating(chain, transactions, now) ==
  LET kept == IF Len(transactions) > MAX_TRANSACTIONS_PER_BLOCK
              THEN SubSeq(transactions, 1, MAX_TRANSACTIONS_PER_BLOCK)
              ELSE transactions
  IN  IF chain = <<>>
      THEN [panicked |-> TRUE, blocks |-> chain, sampled |-> NoReading]
      ELSE LET new_block == create_block(kept, last_block(chain), now)
           IN  IF new_block.panicked
               THEN [panicked |-> TRUE, blocks |-> chain, sampled |-> now]
               ELSE [panicked |-> FALSE,
                     blocks |-> push(chain, new_block.block),
                     sampled |-> now]

\* Blockchain::add_block on the block vector `chain`; `now` is the reading
\* current_timestamp() returns if it is called.  Yields whether the call
\* panicked, the block vector afterwards and the reading it sampled.
add_block(chain, transactions, now) ==
  IF Len(transactions) > MAX_TRANSACTIONS_PER_BLOCK
  THEN [panicked |-> TRUE, blocks |-> chain, sampled |-> NoReading]
  ELSE IF chain = <<>>
  THEN [panicked |-> TRUE, blocks |-> chain, sampled |-> NoReading]
  ELSE LET new_block == create_block(transactions, last_block(chain), now)
       IN  IF new_block.panicked
           THEN [panicked |-> TRUE, blocks |-> chain, sampled |-> now]
           ELSE [panicked |-> FALSE,
                 blocks |-> push(chain, new_block.block),
                 sampled |-> now]

\* Option<&Block>
None == [some |-> FALSE]

Some(block) == [some |-> TRUE, block |-> block]

\* get_block with the tail out of range: index + 1 < len.
get_block_short(chain, index) ==
  IF index + 1 < Len(chain) THEN Some(chain[index + 1]) ELSE None

\* Blockchain::get_block: self.blocks.get(index), index counted from 0.
get_block(chain, index) ==
  IF index < Len(chain) THEN Some(chain[index + 1]) ELSE None

\* The loop body without the recomputation of the digest.
check_block_no_rehash(current, previous) ==
  IF current.index # previous.index + 1 THEN FALSE
  ELSE IF current.previous_hash # previous.hash THEN FALSE
  ELSE TRUE

\* The loop body without the comparison of previous_hash.
check_block_no_link(current, previous) ==
  IF current.index # previous.index + 1 THEN FALSE
  ELSE IF current.hash # calculate_hash(current) THEN FALSE
  ELSE TRUE

\* The loop body with a capacity check on the stored transactions added.
check_block_with_capacity(current, previous) ==
  IF current.index # previous.index + 1 THEN FALSE
  ELSE IF current.previous_hash # previous.hash THEN FALSE
  ELSE IF current.hash # calculate_hash(current) THEN FALSE
  ELSE IF Len(current.transactions) > MAX_TRANSACTIONS_PER_BLOCK THEN FALSE
  ELSE TRUE

\* One iteration of the loop of is_valid: TRUE when the loop goes on,
\* FALSE when it returns false.
check_block(current, previous) ==
  IF current.index # previous.index + 1 THEN FALSE
  ELSE IF current.previous_hash # previous.hash THEN FALSE
  ELSE IF current.hash # calculate_hash(current) THEN FALSE
  ELSE TRUE

\* for i in 1..self.blocks.len() (0-based), from position i (1-based).
RECURSIVE is_valid_loop(_, _)
is_valid_loop(chain, i) ==
  IF i > Len(chain) THEN TRUE
  ELSE IF ~check_block(chain[i], chain[i - 1]) THEN FALSE
  ELSE is_valid_loop(chain, i + 1)

\* The genesis checks without the recomputation of the digest.
check_genesis_no_rehash(genesis) ==
  IF genesis.index # 0 THEN FALSE
  ELSE IF genesis.previous_hash # ZeroHash THEN FALSE
  ELSE TRUE

\* The checks on the genesis block.
check_genesis(genesis) ==
  IF genesis.index # 0 THEN FALSE
  ELSE IF genesis.previous_hash # ZeroHash THEN FALSE
  ELSE IF genesis.hash # calculate_hash(genesis) THEN FALSE
  ELSE TRUE

\* Blockchain::is_valid
is_valid(chain) ==
  IF chain = <<>> THEN FALSE
  ELSE IF ~check_genesis(chain[1]) THEN FALSE
  ELSE is_valid_loop(chain, 2)

\* ------------------------------------------------------------- consensus
\* Peer::new(id)
Peer(id) == [id |-> id, is_honest |-> TRUE]

\* A vote that follows the honesty flag.
vote_for_transaction_by_flag(peer, transactions) == peer.is_honest

\* Peer::vote_for_transaction
vote_for_transaction(peer, transactions) == TRUE

\* The threshold rounded down: peers.len() / 2.
majority_threshold_floor(peerList) == Len(peerList) \div 2

\* FixedPeerConsensus::majority_threshold: peers.len().div_ceil(2)
majority_threshold(peerList) == (Len(peerList) + 1) \div 2

\* peers.iter().filter(|peer| peer.vote_for_transaction(..)).count()
count_approvals(peerList, transactions) ==
  Cardinality({i \in DOMAIN peerList :
                 vote_for_transaction(peerList[i], transactions)})

\* propose_block appending before the approvals are compared.
propose_block_append_first(peerList, transactions, chain, now) ==
  IF peerList = <<>>
  THEN [panicked |-> FALSE, ret |-> FALSE, blocks |-> chain,
        sampled |-> NoReading]
  ELSE LET approvals == count_approvals(peerList, transactions)
           threshold == majority_threshold(peerList)
           r == add_block(chain, transactions, now)
       IN  [panicked |-> r.panicked, ret |-> approvals > threshold,
            blocks |-> r.blocks, sampled |-> r.sampled]

\* propose_block with the threshold taken from the length of the chain
\* in place of the number of peers.
propose_block_chain_threshold(peerList, transactions, chain, now) ==
  IF peerList = <<>>
  THEN [panicked |-> FALSE, ret |-> FALSE, blocks |-> chain,
        sampled |-> NoReading]
  ELSE LET approvals == count_approvals(peerList, transactions)
           threshold == Len(chain)
       IN  IF approvals > threshold
           THEN LET r == add_block(chain, transactions, now)
                IN  [panicked |-> r.panicked, ret |-> TRUE,
                     blocks |-> r.blocks, sampled |-> r.sampled]
           ELSE [panicked |-> FALSE, ret |-> FALSE, blocks |-> chain,
                 sampled |-> NoReading]

\* FixedPeerConsensus::propose_block on the block vector `chain`.  Yields
\* whether the call panicked, what it returned, the block vector
\* afterwards and the clock reading it sampled.
propose_block(peerList, transactions, chain, now) ==
  IF peerList = <<>>
  THEN [panicked |-> FALSE, ret |-> FALSE, blocks |-> chain,
        sampled |-> NoReading]
  ELSE LET approvals == count_approvals(peerList, transactions)
           threshold == majority_threshold(peerList)
       IN  IF approvals > threshold
           THEN LET r == add_block(chain, transactions, now)
                IN  [panicked |-> r.panicked, ret |-> TRUE,
                     blocks |-> r.blocks, sampled |-> r.sampled]
           ELSE [panicked |-> FALSE, ret |-> FALSE, blocks |-> chain,
                 sampled |-> NoReading]

\* --------------------------------------------------------- serialization
\* Result<T, bincode::Error>
Err == [ok |-> FALSE]

Ok(value) == [ok |-> TRUE, value |-> value]

\* bincode::serialize(block): the fields of Block in declaration order,
\* the transaction vector length-prefixed, the two digests one word each.
serialize_block(block) ==
  Ok(<<block.index, block.timestamp, Len(block.transactions)>>
       \o SerializeTransactions(block.transactions)
       \o <<block.previous_hash, block.hash>>)

\* The n transactions encoded in `bytes` from position `at`.
DeserializeTransactions(bytes, at, n) ==
  [k \in 1..n |-> Transaction(bytes[at + 3 * (k - 1)],
                              bytes[at + 3 * (k - 1) + 1],
                              bytes[at + 3 * (k - 1) + 2])]

\* The decoder with the two digests read in the wrong order.
deserialize_block_at_swapped(bytes, at) ==
  IF Len(bytes) < at + 2 THEN Err
  ELSE LET n == bytes[at + 2]
           end == at + 3 + 3 * n + 1
       IN  IF Len(bytes) < end THEN Err
           ELSE [ok |-> TRUE,
                 value |-> Block(bytes[at], bytes[at + 1],
                                 DeserializeTransactions(bytes, at + 3, n),
                                 bytes[end], bytes[end - 1]),
                 next |-> end + 1]

\* The decoder of one Block from position `at` of `bytes`: the block and
\* the position after it, or Err when the bytes run out.
deserialize_block_at(bytes, at) ==
  IF Len(bytes) < at + 2 THEN Err
  ELSE LET n == bytes[at + 2]
           end == at + 3 + 3 * n + 1
       IN  IF Len(bytes) < end THEN Err
           ELSE [ok |-> TRUE,
                 value |-> Block(bytes[at], bytes[at + 1],
                                 DeserializeTransactions(bytes, at + 3, n),
                                 bytes[end - 1], bytes[end]),
                 next |-> end + 1]

\* bincode::deserialize::<Block>(bytes)
deserialize_block(bytes) ==
  LET r == deserialize_block_at(bytes, 1)
  IN  IF r.ok THEN Ok(r.value) ELSE Err

\* The encodings of the blocks of `chain`, one after the other.
RECURSIVE SerializeBlocks(_)
SerializeBlocks(chain) ==
  IF chain = <<>> THEN <<>>
  ELSE serialize_block(Head(chain)).value \o SerializeBlocks(Tail(chain))

\* bincode::serialize(chain): the block vector, length-prefixed.
serialize_blockchain(chain) ==
  Ok(<<Len(chain)>> \o SerializeBlocks(chain))

\* The n blocks encoded in `bytes` from position `at`.
RECURSIVE DeserializeBlocks(_, _, _)
DeserializeBlocks(bytes, at, n) ==
  IF n = 0 THEN Ok(<<>>)
  ELSE LET r == deserialize_block_at(bytes, at)
       IN  IF ~r.ok THEN Err
           ELSE LET rest == DeserializeBlocks(bytes, r.next, n - 1)
                IN  IF ~rest.ok THEN Err
                    ELSE Ok(<<r.value>> \o rest.value)

\* bincode::deserialize::<Blockchain>(bytes)
deserialize_blockchain(bytes) ==
  IF Len(bytes) < 1 THEN Err
  ELSE DeserializeBlocks(bytes, 2, bytes[1])

\* ----------------------------------------------------------------- state
VARIABLES
  blocks,   \* Blockchain.blocks
  peers,    \* FixedPeerConsensus.peers
  last,     \* the call made last: operation, arguments, outcome
  pre,      \* Blockchain.blocks as it was when that call began
  tampers   \* number of in-place writes to the public fields so far

vars == <<blocks, peers, last, pre, tampers>>

Call(op, txs, pos, sampled, outcome) ==
  [op |-> op, txs |-> txs, pos |-> pos, sampled |-> sampled,
   outcome |-> outcome, value |-> None]

\* Blockchain::new() and FixedPeerConsensus::new(peers), with n peers of
\* which the first `dishonest` have their flag cleared.
Init ==
  /\ \E now \in 0..MaxClock : blocks = push(<<>>, create_genesis_block(now))
  /\ \E n \in 0..MaxPeers : \E dishonest \in {0, 1} :
       /\ dishonest <= n
       /\ peers = [i \in 1..n |->
                     [Peer(i) EXCEPT !.is_honest = (i > dishonest)]]
  /\ last = Call("new", <<>>, -1, NoReading, "returned")
  /\ pre = <<>>
  /\ tampers = 0

\* The thread owning the ledger has not panicked.
Running == last.outcome # "panicked"

\* chain.add_block(transactions)
AddBlock ==
  /\ Running
  /\ Len(blocks) < MaxBlocks
  /\ \E transactions \in Batches : \E now \in 0..MaxClock :
       LET r == add_block(blocks, transactions, now)
       IN  /\ blocks' = r.blocks
           /\ last' = Call("add_block", transactions, -1, r.sampled,
                           IF r.panicked THEN "panicked" ELSE "returned")
  /\ pre' = blocks
  /\ UNCHANGED <<peers, tampers>>

\* consensus.propose_block(transactions, &mut chain)
ProposeBlock ==
  /\ Running
  /\ Len(blocks) < MaxBlocks
  /\ \E transactions \in Batches : \E now \in 0..MaxClock :
       LET r == propose_block(peers, transactions, blocks, now)
       IN  /\ blocks' = r.blocks
           /\ last' = Call("propose_block", transactions, -1, r.sampled,
                           IF r.panicked THEN "panicked"
                           ELSE IF r.ret THEN "true" ELSE "false")
  /\ pre' = blocks
  /\ UNCHANGED <<peers, tampers>>

\* chain.is_valid()
IsValid ==
  /\ Running
  /\ last' = Call("is_valid", <<>>, -1, NoReading,
                  IF is_valid(blocks) THEN "true" ELSE "false")
  /\ pre' = blocks
  /\ UNCHANGED <<blocks, peers, tampers>>

\* chain.get_block(index)
GetBlock ==
  /\ Running
  /\ \E index \in 0..MaxBlocks :
       LET r == get_block(blocks, index)
       IN  last' = [Call("get_block", <<>>, index, NoReading,
                         IF r.some THEN "some" ELSE "none")
                      EXCEPT !.value = r]
  /\ pre' = blocks
  /\ UNCHANGED <<blocks, peers, tampers>>

Next == AddBlock \/ ProposeBlock \/ IsValid \/ GetBlock

Spec == Init /\ [][Next]_vars

\* ------------------------------------------------------------- tampering
\* Block's fields and Blockchain.blocks are pub: code holding the ledger
\* can write them in place.  Each action below is one such write, as the
\* tampering test and the attack of main.rs do.
CanTamper == Running /\ tampers < MaxTampers

\* The digests a forger has at hand for block i: the zero sentinel, the
\* stored digests of the chain, the digest recomputed from block i.
HashChoices(chain, i) ==
  {ZeroHash} \cup {chain[j].hash : j \in DOMAIN chain}
             \cup {calculate_hash(chain[i])}

\* chain.blocks[i].index = v
TamperIndex ==
  /\ CanTamper
  /\ \E i \in DOMAIN blocks : \E v \in 0..MaxBlocks :
       /\ v # blocks[i].index
       /\ blocks' = [blocks EXCEPT ![i].index = v]
       /\ last' = Call("tamper_index", <<>>, i, NoReading, "returned")
  /\ pre' = blocks
  /\ tampers' = tampers + 1
  /\ UNCHANGED peers

\* chain.blocks[i].timestamp = v
TamperTimestamp ==
  /\ CanTamper
  /\ \E i \in DOMAIN blocks : \E v \in 0..MaxClock :
       /\ v # blocks[i].timestamp
       /\ blocks' = [blocks EXCEPT ![i].timestamp = v]
       /\ last' = Call("tamper_timestamp", <<>>, i, NoReading, "returned")
  /\ pre' = blocks
  /\ tampers' = tampers + 1
  /\ UNCHANGED peers

\* chain.blocks[i].transactions = txs (clear() is txs = <<>>)
TamperTransactions ==
  /\ CanTamper
  /\ \E i \in DOMAIN blocks : \E txs \in Batches :
       /\ txs # blocks[i].transactions
       /\ blocks' = [blocks EXCEPT ![i].transactions = txs]
       /\ last' = Call("tamper_transactions", txs, i, NoReading, "returned")
  /\ pre' = blocks
  /\ tampers' = tampers + 1
  /\ UNCHANGED peers

\* chain.blocks[i].previous_hash = h
TamperPreviousHash ==
  /\ CanTamper
  /\ \E i \in DOMAIN blocks : \E h \in HashChoices(blocks, i) :
       /\ h # blocks[i].previous_hash
       /\ blocks' = [blocks EXCEPT ![i].previous_hash = h]
       /\ last' = Call("tamper_previous_hash", <<>>, i, NoReading,
                       "returned")
  /\ pre' = blocks
  /\ tampers' = tampers + 1
  /\ UNCHANGED peers

\* chain.blocks[i].hash = h
TamperHash ==
  /\ CanTamper
  /\ \E i \in DOMAIN blocks : \E h \in HashChoices(blocks, i) :
       /\ h # blocks[i].hash
       /\ blocks' = [blocks EXCEPT ![i].hash = h]
       /\ last' = Call("tamper_hash", <<>>, i, NoReading, "returned")
  /\ pre' = blocks
  /\ tampers' = tampers + 1
  /\ UNCHANGED peers

\* chain.blocks[i].transactions = txs;
\* chain.blocks[i].hash = chain.blocks[i].calculate_hash()
TamperRewrite ==
  /\ CanTamper
  /\ \E i \in DOMAIN blocks : \E txs \in Batches :
       /\ txs # blocks[i].transactions
       /\ LET block == [blocks[i] EXCEPT !.transactions = txs]
          IN  blocks' = [blocks EXCEPT
                           ![i] = [block EXCEPT
                                     !.hash = calculate_hash(block)]]
       /\ last' = Call("tamper_rewrite", txs, i, NoReading, "returned")
  /\ pre' = blocks
  /\ tampers' = tampers + 1
  /\ UNCHANGED peers

\* chain.blocks.pop()
TamperPop ==
  /\ CanTamper
  /\ blocks # <<>>
  /\ blocks' = SubSeq(blocks, 1, Len(blocks) - 1)
  /\ last' = Call("tamper_pop", <<>>, Len(blocks), NoReading, "returned")
  /\ pre' = blocks
  /\ tampers' = tampers + 1
  /\ UNCHANGED peers

Tamper ==
  \/ TamperIndex
  \/ TamperTimestamp
  \/ TamperTransactions
  \/ TamperPreviousHash
  \/ TamperHash
  \/ TamperRewrite
  \/ TamperPop

\* The ledger in the hands of code that also writes its fields; the
\* admission rule is the three-peer rule of the consensus test.
InitTamper ==
  /\ Init
  /\ peers = [i \in 1..3 |-> Peer(i)]

\* The order of main.rs and of the tampering test: the chain is built by
\* propose_block / add_block, then written in place, and is_valid() is
\* called at any point.
Build == tampers = 0 /\ (AddBlock \/ ProposeBlock)

NextTamper == Build \/ IsValid \/ Tamper

SpecTamper == InitTamper /\ [][NextTamper]_vars

\* deserialize_block(&serialize_block(chain.blocks.last()).unwrap())
RoundtripBlock ==
  /\ Running
  /\ blocks # <<>>
  /\ LET r == deserialize_block(serialize_block(last_block(blocks)).value)
     IN  last' = [Call("roundtrip_block", <<>>, Len(blocks) - 1, NoReading,
                       IF r.ok THEN "ok" ELSE "err")
                    EXCEPT !.value = r]
  /\ pre' = blocks
  /\ UNCHANGED <<blocks, peers, tampers>>

\* deserialize_blockchain(&serialize_blockchain(&chain).unwrap())
RoundtripBlockchain ==
  /\ Running
  /\ LET r == deserialize_blockchain(serialize_blockchain(blocks).value)
     IN  last' = [Call("roundtrip_blockchain", <<>>, -1, NoReading,
                       IF r.ok THEN "ok" ELSE "err")
                    EXCEPT !.value = r]
  /\ pre' = blocks
  /\ UNCHANGED <<blocks, peers, tampers>>

\* The serialization steps of main.rs: the chain is built, its
\* transaction lists possibly rewritten or its tail dropped, and it is
\* encoded and decoded at any point.
NextCodec ==
  \/ Build
  \/ TamperTransactions
  \/ TamperRewrite
  \/ TamperPop
  \/ RoundtripBlock
  \/ RoundtripBlockchain

SpecCodec == InitTamper /\ [][NextCodec]_vars

\* ------------------------------------------------------------ properties
IsPrefix(s, t) == Len(s) <= Len(t) /\ SubSeq(t, 1, Len(s)) = s

\* Invariants (a) and (b) of the ledger, stated block by block.
GenesisOk(chain) ==
  /\ chain[1].index = 0
  /\ chain[1].previous_hash = ZeroHash
  /\ chain[1].hash = calculate_hash(chain[1])

Linked(chain) ==
  \A i \in 1..(Len(chain) - 1) :
    /\ chain[i + 1].index = chain[i].index + 1
    /\ chain[i + 1].previous_hash = chain[i].hash

DigestsOk(chain) ==
  \A i \in 2..Len(chain) : chain[i].hash = calculate_hash(chain[i])

WellFormed(chain) ==
  /\ chain # <<>>
  /\ GenesisOk(chain)
  /\ Linked(chain)
  /\ DigestsOk(chain)

Appended == last.op = "add_block" /\ last.outcome = "returned"

Proposed == last.op = "propose_block"

WithinLimit == Len(last.txs) <= MAX_TRANSACTIONS_PER_BLOCK

\* The reading sampled by the last call advanced past the tail it saw.
ClockAdvanced == last.sampled > last_block(pre).timestamp

\* C1: after every completed add_block on a ledger built from new() by
\* add_block and propose_block calls, the chain is valid, and every
\* is_valid() call on such a ledger returns true.
C1_ValidAfterAppends ==
  /\ Appended => is_valid(blocks)
  /\ last.op = "is_valid" => last.outcome = "true"

C1_Witness ==
  /\ last.op = "is_valid"
  /\ last.outcome = "true"
  /\ Len(blocks) = 3
  /\ Len(blocks[2].transactions) = MAX_TRANSACTIONS_PER_BLOCK
  /\ Len(blocks[3].transactions) = 1

\* C2: writing a different transaction list into a non-genesis block of a
\* valid ledger of at least 2 blocks, its stored digest left as it was,
\* makes is_valid() false.
C2_TamperDetected ==
  (/\ last.op = "tamper_transactions"
   /\ last.pos >= 2
   /\ Len(pre) >= 2
   /\ is_valid(pre)) => ~is_valid(blocks)

C2_Witness ==
  /\ last.op = "tamper_transactions"
  /\ last.pos = 2
  /\ Len(pre) = 3
  /\ is_valid(pre)
  /\ last.txs = <<>>
  /\ ~is_valid(blocks)

\* C3 as stated: a propose_block call on a batch within the limit that
\* returns, returns true for 3, 4 and 5 peers and false for 0, 1 and 2
\* peers.
C3_Original ==
  (Proposed /\ WithinLimit /\ last.outcome # "panicked") =>
    /\ Len(peers) \in {3, 4, 5} => last.outcome = "true"
    /\ Len(peers) \in {0, 1, 2} => last.outcome = "false"

\* C3 amended: propose_block on a batch within the limit returns false
\* for 0 and 1 peers, without sampling the clock; for 2, 3, 4 and 5 peers
\* the approvals exceed ceil(n/2) and the append is attempted: the call
\* returns true when the clock reading sampled by the append is greater
\* than the tail's timestamp and panics otherwise.
C3_MajorityArithmetic ==
  (Proposed /\ WithinLimit) =>
    /\ Len(peers) \in {0, 1} =>
         last.outcome = "false" /\ last.sampled = NoReading
    /\ Len(peers) \in {2, 3, 4, 5} =>
         /\ last.sampled # NoReading
         /\ last.outcome = IF ClockAdvanced THEN "true" ELSE "panicked"

C3_Witness ==
  /\ Proposed
  /\ WithinLimit
  /\ Len(peers) = 2
  /\ last.outcome = "true"
  /\ Len(blocks) = 2

\* C4: a propose_block call that returns true has appended exactly one
\* block holding the candidate transactions in their order; one that
\* returns false leaves the ledger as it was.
C4_ProposeEffect ==
  Proposed =>
    /\ last.outcome = "true" =>
         /\ Len(blocks) = Len(pre) + 1
         /\ IsPrefix(pre, blocks)
         /\ last_block(blocks).transactions = last.txs
    /\ last.outcome = "false" => blocks = pre

C4_Witness ==
  /\ Proposed
  /\ last.outcome = "true"
  /\ last.txs = Batch(MAX_TRANSACTIONS_PER_BLOCK)
  /\ Len(blocks) = Len(pre) + 1

\* C5 as stated: add_block of exactly MAX_TRANSACTIONS_PER_BLOCK
\* transactions succeeds and adds one block; add_block of one more panics
\* and leaves the ledger unchanged.
C5_Original ==
  last.op = "add_block" =>
    /\ Len(last.txs) = MAX_TRANSACTIONS_PER_BLOCK =>
         last.outcome = "returned" /\ Len(blocks) = Len(pre) + 1
    /\ Len(last.txs) = MAX_TRANSACTIONS_PER_BLOCK + 1 =>
         last.outcome = "panicked" /\ blocks = pre

\* C5 amended: add_block of exactly MAX_TRANSACTIONS_PER_BLOCK
\* transactions passes the capacity check, and succeeds, adding one block
\* with all of them, whenever the clock reading it samples is greater than
\* the tail's timestamp; add_block of one more panics before the clock is
\* sampled and leaves every stored block unchanged; no appended block
\* holds fewer transactions than the batch given.
C5_Capacity ==
  last.op = "add_block" =>
    /\ Len(last.txs) = MAX_TRANSACTIONS_PER_BLOCK =>
         /\ last.sampled # NoReading
         /\ ClockAdvanced =>
              /\ last.outcome = "returned"
              /\ Len(blocks) = Len(pre) + 1
    /\ Len(last.txs) = MAX_TRANSACTIONS_PER_BLOCK + 1 =>
         /\ last.outcome = "panicked"
         /\ last.sampled = NoReading
         /\ blocks = pre
    /\ blocks # pre => last_block(blocks).transactions = last.txs

C5_Witness ==
  /\ Appended
  /\ Len(last.txs) = MAX_TRANSACTIONS_PER_BLOCK
  /\ Len(last_block(blocks).transactions) = MAX_TRANSACTIONS_PER_BLOCK
  /\ Len(blocks) = 3

\* C6: a ledger fresh from new() holds exactly one block, with index 0,
\* no transactions, the zero sentinel as previous digest and a stored
\* digest equal to the recomputed one.
C6_Genesis ==
  last.op = "new" =>
    /\ Len(blocks) = 1
    /\ blocks[1].index = 0
    /\ blocks[1].transactions = <<>>
    /\ blocks[1].previous_hash = ZeroHash
    /\ blocks[1].hash = calculate_hash(blocks[1])

C6_Witness ==
  /\ last.op = "new"
  /\ Len(blocks) = 1
  /\ blocks[1].timestamp = 1

\* C7: in every ledger for which is_valid() is true, and in every ledger
\* reached from new() by add_block and propose_block calls alone, each
\* adjacent pair of blocks has consecutive indices and the successor's
\* previous_hash equals the predecessor's hash.
C7_SequentialLinkage ==
  (is_valid(blocks) \/ tampers = 0) => Linked(blocks)

C7_Witness ==
  /\ tampers > 0
  /\ last.op = "tamper_rewrite"
  /\ is_valid(blocks)
  /\ Len(blocks) = 3

\* C8: every step keeps the block vector it started from as a prefix of
\* the block vector it ends with, and a completed add_block ends with
\* exactly one block more.
C8_AppendOnly ==
  [][/\ IsPrefix(blocks, blocks')
     /\ (last'.op = "add_block" /\ last'.outcome = "returned")
          => Len(blocks') = Len(blocks) + 1]_vars

C8_Witness ==
  /\ Appended
  /\ Len(pre) = 2
  /\ Len(blocks) = 3
  /\ IsPrefix(pre, blocks)

\* C9: is_valid() returns true exactly when the block vector is
\* non-empty, the genesis block has index 0, the zero sentinel as previous
\* digest and a matching stored digest, and every later block has the
\* next index, its predecessor's hash as previous_hash and a matching
\* stored digest, whatever writes came before the call.
C9_ValidateIffWellFormed ==
  last.op = "is_valid" => (last.outcome = "true" <=> WellFormed(blocks))

C9_Witness ==
  /\ last.op = "is_valid"
  /\ tampers > 0
  /\ last.outcome = "false"
  /\ blocks # <<>>
  /\ Linked(blocks)
  /\ DigestsOk(blocks)

\* C10: when the clock reading sampled by add_block (called directly or
\* by propose_block) is equal to or smaller than the tail's timestamp,
\* the call panics and the ledger is left as it was.
C10_StalledClockPanics ==
  (/\ last.op \in {"add_block", "propose_block"}
   /\ last.sampled # NoReading
   /\ ~ClockAdvanced) =>
    /\ last.outcome = "panicked"
    /\ blocks = pre

C10_Witness ==
  /\ last.op = "add_block"
  /\ last.sampled = last_block(pre).timestamp
  /\ last.outcome = "panicked"
  /\ Len(blocks) = 2
  /\ blocks = pre

\* C11: in every ledger reached from new() by add_block and propose_block
\* calls, whatever the clock reads, timestamps increase strictly along the
\* chain.
C11_TimestampsIncrease ==
  \A i \in 1..(Len(blocks) - 1) :
    blocks[i + 1].timestamp > blocks[i].timestamp

C11_Witness ==
  /\ Len(blocks) = 2
  /\ blocks[1].timestamp < blocks[2].timestamp
  /\ last.op = "propose_block"
  /\ last.outcome = "panicked"
  /\ last.sampled < last_block(blocks).timestamp

\* C12: get_block(index) returns the block stored at position index when
\* index is below the block count and None otherwise; it never panics and
\* leaves the ledger as it was.
C12_GetBlock ==
  last.op = "get_block" =>
    /\ last.pos < Len(blocks) =>
         last.outcome = "some" /\ last.value = Some(blocks[last.pos + 1])
    /\ last.pos >= Len(blocks) =>
         last.outcome = "none" /\ last.value = None
    /\ blocks = pre

C12_Witness ==
  /\ last.op = "get_block"
  /\ Len(blocks) = 3
  /\ last.pos = 2
  /\ last.outcome = "some"
  /\ last.value.block = blocks[3]

SameFields(a, b) ==
  /\ a.index = b.index
  /\ a.timestamp = b.timestamp
  /\ a.transactions = b.transactions
  /\ a.previous_hash = b.previous_hash
  /\ a.hash = b.hash

\* C13: decoding the encoding of a block gives back every field, so the
\* decoded block's stored digest equals its recomputed digest exactly when
\* the original's does; decoding the encoding of a ledger gives back the
\* same number of blocks, each with every field, and the same is_valid()
\* result.
C13_Roundtrip ==
  /\ last.op = "roundtrip_block" =>
       /\ last.outcome = "ok"
       /\ SameFields(last.value.value, blocks[last.pos + 1])
       /\ (last.value.value.hash = calculate_hash(last.value.value))
            <=> (blocks[last.pos + 1].hash
                   = calculate_hash(blocks[last.pos + 1]))
  /\ last.op = "roundtrip_blockchain" =>
       /\ last.outcome = "ok"
       /\ Len(last.value.value) = Len(blocks)
       /\ \A i \in DOMAIN blocks :
            SameFields(last.value.value[i], blocks[i])
       /\ is_valid(last.value.value) <=> is_valid(blocks)

C13_Witness ==
  /\ last.op = "roundtrip_blockchain"
  /\ last.outcome = "ok"
  /\ tampers > 0
  /\ Len(last.value.value) = 3
  /\ Len(last.value.value[2].transactions) = MAX_TRANSACTIONS_PER_BLOCK
  /\ ~is_valid(last.value.value)

\* The peers of `peerList` with their honesty flags set to f.
WithFlags(peerList, f) ==
  [i \in DOMAIN peerList |-> [peerList[i] EXCEPT !.is_honest = f[i]]]

ProposeOutcome(r) ==
  IF r.panicked THEN "panicked" ELSE IF r.ret THEN "true" ELSE "false"

\* The clock readings consistent with the last call: the one it sampled,
\* or any when it sampled none.
ReadingsOfLast ==
  IF last.sampled = NoReading THEN 0..MaxClock ELSE {last.sampled}

\* C14: the propose_block call just made gives the same outcome and the
\* same ledger under every other assignment of the peers' honesty flags.
C14_FlagsIrrelevant ==
  Proposed =>
    \A f \in [DOMAIN peers -> BOOLEAN] : \A now \in ReadingsOfLast :
      LET r == propose_block(WithFlags(peers, f), last.txs, pre, now)
      IN  /\ ProposeOutcome(r) = last.outcome
          /\ r.blocks = blocks

C14_Witness ==
  /\ Proposed
  /\ Len(peers) = 3
  /\ ~peers[1].is_honest
  /\ last.outcome = "true"
  /\ Len(blocks) = 3

\* What propose_block returns for the batch on a ledger fresh from new(),
\* the clock having advanced.
FreshVerdict(peerList, transactions) ==
  ProposeOutcome(propose_block(peerList, transactions,
                               <<create_genesis_block(0)>>, 1))

\* C15: no step changes the peer list, and every propose_block call on a
\* batch within the limit that returns, returns what the same rule
\* returns for that batch on a fresh ledger, whatever was proposed before
\* and whatever the ledger holds.
C15_IndependentRounds ==
  [][/\ peers' = peers
     /\ (/\ last'.op = "propose_block"
         /\ Len(last'.txs) <= MAX_TRANSACTIONS_PER_BLOCK
         /\ last'.outcome # "panicked")
          => last'.outcome = FreshVerdict(peers, last'.txs)]_vars

C15_Witness ==
  /\ Proposed
  /\ WithinLimit
  /\ Len(peers) = 5
  /\ Len(pre) = 2
  /\ last.outcome = "true"
  /\ Len(blocks) = 3

OverLimit == Len(last.txs) > MAX_TRANSACTIONS_PER_BLOCK

\* C16 as stated: a propose_block call on a batch over the limit leaves
\* the ledger as it was; with 3 or more peers it panics, with fewer than
\* 3 peers it returns false.
C16_Original ==
  (Proposed /\ OverLimit) =>
    /\ blocks = pre
    /\ Len(peers) >= 3 => last.outcome = "panicked"
    /\ Len(peers) < 3 => last.outcome = "false"

\* C16 amended: a propose_block call on a batch over the limit leaves the
\* ledger as it was; with 2 or more peers the vote passes and the call
\* panics in add_block before the clock is sampled, with fewer than 2
\* peers it returns false.
C16_OverLimitPropose ==
  (Proposed /\ OverLimit) =>
    /\ blocks = pre
    /\ Len(peers) >= 2 =>
         last.outcome = "panicked" /\ last.sampled = NoReading
    /\ Len(peers) < 2 => last.outcome = "false"

C16_Witness ==
  /\ Proposed
  /\ OverLimit
  /\ Len(peers) = 2
  /\ last.outcome = "panicked"
  /\ Len(blocks) = 2
  /\ blocks = pre

SingleFieldWrites ==
  {"tamper_index", "tamper_timestamp", "tamper_transactions",
   "tamper_previous_hash", "tamper_hash"}

\* C17: writing a different value into any one field (index, timestamp,
\* transactions, previous_hash or hash) of any one block of a valid
\* ledger, the genesis block included, makes is_valid() false (digests
\* being collision-free).
C17_AnyFieldDetected ==
  (last.op \in SingleFieldWrites /\ is_valid(pre)) => ~is_valid(blocks)

C17_Witness ==
  /\ last.op = "tamper_timestamp"
  /\ last.pos = 1
  /\ Len(pre) = 3
  /\ is_valid(pre)
  /\ ~is_valid(blocks)

\* C18: in a valid ledger of at least 3 blocks, rewriting the transaction
\* list of a block that is not the tail and storing that block's
\* recomputed digest makes is_valid() false, the successor's
\* previous_hash no longer being the rewritten block's hash.
C18_RewriteInnerDetected ==
  (/\ last.op = "tamper_rewrite"
   /\ Len(pre) >= 3
   /\ last.pos < Len(pre)
   /\ is_valid(pre)) =>
    /\ ~is_valid(blocks)
    /\ blocks[last.pos + 1].previous_hash # blocks[last.pos].hash
    /\ blocks[last.pos].hash = calculate_hash(blocks[last.pos])

C18_Witness ==
  /\ last.op = "tamper_rewrite"
  /\ Len(pre) = 3
  /\ last.pos = 2
  /\ is_valid(pre)
  /\ ~is_valid(blocks)
  /\ blocks[2].hash = calculate_hash(blocks[2])

\* C19: in a valid ledger, rewriting the transaction list of the tail
\* block and storing the tail's recomputed digest leaves is_valid() true.
C19_RewriteTailUndetected ==
  (/\ last.op = "tamper_rewrite"
   /\ last.pos = Len(pre)
   /\ is_valid(pre)) =>
    /\ is_valid(blocks)
    /\ last_block(blocks).transactions # last_block(pre).transactions

C19_Witness ==
  /\ last.op = "tamper_rewrite"
  /\ Len(pre) = 3
  /\ last.pos = 3
  /\ is_valid(pre)
  /\ is_valid(blocks)
  /\ Len(blocks[3].transactions) = MAX_TRANSACTIONS_PER_BLOCK + 1

\* The block stored at every position carries that position as index.
IndexedByPosition ==
  \A i \in DOMAIN blocks : blocks[i].index = i - 1

\* C20: in every ledger reached from new() by add_block and
\* propose_block calls, failed ones included, the ledger is non-empty,
\* the block at position i has index i, get_block(i) returns a block of
\* index i when it returns one, and the block count starts at 1 and grows
\* by one with each add_block that returns and each propose_block that
\* returns true, and with no other step.
C20_IndexIsPosition ==
  /\ [](/\ blocks # <<>>
        /\ IndexedByPosition
        /\ last.op = "new" => Len(blocks) = 1
        /\ (last.op = "get_block" /\ last.outcome = "some")
             => last.value.block.index = last.pos)
  /\ [][Len(blocks') = Len(blocks)
          + (IF \/ last'.op = "add_block" /\ last'.outcome = "returned"
                \/ last'.op = "propose_block" /\ last'.outcome = "true"
             THEN 1 ELSE 0)]_vars

C20_Witness ==
  /\ last.op = "get_block"
  /\ last.outcome = "some"
  /\ last.pos = 1
  /\ last.value.block.index = 1
  /\ Len(blocks) = 2
  /\ Len(pre) = 2

====
